---- MODULE Spec2Model ----
(***************************************************************************)
(* Model of apispec.ext.marshmallow (src/apispec/ext/marshmallow/          *)
(* __init__.py): the registry of schema references plug['refs'], the       *)
(* definition helper with its auto-referencing of nested schemas, and the  *)
(* resolution of schema references into "$ref" pointers or inline          *)
(* descriptors.                                                            *)
(*                                                                         *)
(* Python values are modelled as follows.                                  *)
(*   schema class            [tag |-> "class", cls |-> name]               *)
(*   schema instance         [tag |-> "instance", cls, many, exclude, only]*)
(*   name string             [tag |-> "str", s |-> string]                 *)
(*   literal dict            [tag |-> "dict", d |-> function on strings]   *)
(*   registry key (a type)   [kind |-> "type", v |-> __name__]             *)
(*   registry key (a str)    [kind |-> "str", v |-> string]                *)
(* An exception is the field err of a result; "" means a normal return.    *)
(***************************************************************************)
EXTENDS Naturals, Sequences, FiniteSets, TLC

VARIABLES
    world,      \* which set of schema declarations the caller has written
    resolver,   \* spec.schema_name_resolver: "none" when not configured
    plug,       \* spec.plugins[NAME]: a dict that may hold the key "refs"
    calls,      \* number of spec.definition calls the host has made
    last        \* the last call of the host: arguments, outcome, log

vars == <<world, resolver, plug, calls, last>>

\* Number of definition calls of the host in one build.
MaxCalls == 2

-----------------------------------------------------------------------------
(* Python values *)

SchemaClass(c) == [tag |-> "class", cls |-> c]

SchemaInstance(c, m, ex, on) ==
    [tag |-> "instance", cls |-> c, many |-> m, exclude |-> ex, only |-> on]

NameString(s) == [tag |-> "str", s |-> s]

LiteralDict(d) == [tag |-> "dict", d |-> d]

TypeKey(c) == [kind |-> "type", v |-> c]

StrKey(s) == [kind |-> "str", v |-> s]

None == [none |-> TRUE]

EmptyDict == [k \in {} |-> None]

\* d[k] = v on a Python dict.
SetItem(d, k, v) == [x \in DOMAIN d \cup {k} |-> IF x = k THEN v ELSE d[x]]

Range(seq) == {seq[i] : i \in 1..Len(seq)}

-----------------------------------------------------------------------------
(* The schema declarations of the caller *)

Classes == {"A", "B", "C"}

Field(n) == [name |-> n, kind |-> "Field"]

\* marshmallow.fields.Nested: its schema property is a schema instance.
Nested(n, inst) == [name |-> n, kind |-> "Nested", schema |-> inst]

\* marshmallow.fields.List: it has a container and no schema attribute.
List(n, inner) == [name |-> n, kind |-> "List", container |-> inner]

One(c) == SchemaInstance(c, FALSE, <<>>, <<>>)

Many(c) == SchemaInstance(c, TRUE, <<>>, <<>>)

Worlds == {"tree", "list", "cycle"}

DeclaredFields(w, c) ==
    CASE w = "tree" /\ c = "A" ->
            <<Nested("a", One("B")), Nested("b", Many("C")), Field("a_b")>>
      [] w = "tree" /\ c = "B" -> <<Nested("c", One("C"))>>
      [] w = "tree" /\ c = "C" -> <<Field("x")>>
      [] w = "list" /\ c = "A" ->
            <<List("a", Nested("a", Many("B"))), Nested("b", One("C")), Field("a_b")>>
      [] w = "list" /\ c = "B" ->
            <<Nested("c", One("C")), List("d", Nested("d", Many("C"))), List("e", Field("e"))>>
      [] w = "list" /\ c = "C" -> <<Field("x")>>
      [] w = "cycle" /\ c = "A" ->
            <<Nested("a", Many("B")), Field("b"), Field("a_b")>>
      [] w = "cycle" /\ c = "B" -> <<Nested("c", One("A"))>>
      [] w = "cycle" /\ c = "C" -> <<Nested("x", Many("C"))>>

\* Schema.fields of an instance: the declared fields, in declaration order,
\* kept when named by a non-empty only and not named by exclude.
SelectFields(fs, inst) ==
    SelectSeq(fs, LAMBDA f :
        /\ (inst.only # <<>> => f.name \in Range(inst.only))
        /\ f.name \notin Range(inst.exclude))

InstanceFields(inst) == SelectFields(DeclaredFields(world, inst.cls), inst)

\* marshmallow.class_registry.get_class: the classes are registered under
\* their names; any other name raises RegistryError.
ClassRegistry == [n \in Classes |-> SchemaClass(n)]

-----------------------------------------------------------------------------
(* get_schema_instance, get_schema_ref *)

get_schema_instance(schema) ==
    IF schema.tag = "class" THEN One(schema.cls) ELSE schema

\* type(schema).__name__ of a value that is not a class.
TypeName(schema) ==
    CASE schema.tag = "instance" -> schema.cls
      [] schema.tag = "str" -> "str"
      [] schema.tag = "dict" -> "dict"

\* getattr(schema, attr, None): only a schema instance has the attributes.
GetExclude(schema) == IF schema.tag = "instance" THEN schema.exclude ELSE <<>>

GetOnly(schema) == IF schema.tag = "instance" THEN schema.only ELSE <<>>

RECURSIVE AppendElems(_, _)
\* for elem in elems: class_name += '_'; class_name += elem
AppendElems(class_name, elems) ==
    IF elems = <<>> THEN class_name
    ELSE AppendElems(class_name \o "_" \o Head(elems), Tail(elems))

ClassNameSuffix(schema) ==
    LET exclude == GetExclude(schema)
        only == GetOnly(schema)
        n1 == IF exclude # <<>> THEN AppendElems("Without", exclude) ELSE ""
        n2 == IF only # <<>> THEN AppendElems(n1 \o "Only", only) ELSE n1
    IN  n2

get_schema_ref(schema) ==
    IF schema.tag = "class" THEN TypeKey(schema.cls)
    ELSE LET class_name == ClassNameSuffix(schema)
         IN  IF class_name # ""
             THEN StrKey(TypeName(schema) \o class_name)
             ELSE TypeKey(TypeName(schema))

-----------------------------------------------------------------------------
(* swagger.schema2jsonschema and the naming policy *)

FieldNames(fs) == [i \in 1..Len(fs) |-> fs[i].name]

\* The inline object descriptor of a schema (class or instance).
schema2jsonschema(schema) ==
    [type |-> "object",
     properties |-> FieldNames(InstanceFields(get_schema_instance(schema)))]

Resolvers == {"none", "all", "declineC"}

\* spec.schema_name_resolver(key): a definition name, or "" to decline.
schema_name_resolver(key) ==
    IF resolver = "declineC" /\ key = TypeKey("C") THEN ""
    ELSE "Auto" \o key.v

-----------------------------------------------------------------------------
(* schema_definition_helper and inspect_schema_for_auto_referencing *)

\* The state a definition call threads through its nested calls: the plugin
\* dict, the keys the naming policy was asked about, the schemas converted,
\* the descriptor of the innermost call and the exception raised.
CallState(p) ==
    [plug |-> p, asked |-> <<>>, converted |-> <<>>, inspected |-> <<>>,
     ret |-> None, err |-> ""]

EnsureRefs(p) == IF "refs" \in DOMAIN p THEN p ELSE SetItem(p, "refs", EmptyDict)

\* Variant of StoreRef that gives a key already bound a fresh name.
StoreRef_Unique(p, schema_ref, name) ==
    [EnsureRefs(p) EXCEPT !["refs"] =
        SetItem(@, schema_ref,
                IF schema_ref \in DOMAIN @ THEN name \o "_1" ELSE name)]

\* Variant of StoreRef that keeps one key for each name: it drops the keys
\* bound to the name before it stores the new one.
StoreRef_OnePerName(p, schema_ref, name) ==
    LET refs == EnsureRefs(p)["refs"]
        kept == {k \in DOMAIN refs : refs[k] # name}
    IN  [EnsureRefs(p) EXCEPT !["refs"] =
            SetItem([k \in kept |-> refs[k]], schema_ref, name)]

\* plug['refs'][schema_ref] = name
StoreRef(p, schema_ref, name) ==
    [EnsureRefs(p) EXCEPT !["refs"] = SetItem(@, schema_ref, name)]

\* copy.copy(nested_schema) with many = False, when nested_schema.many.
Singular(nested_schema) ==
    IF nested_schema.many THEN [nested_schema EXCEPT !.many = FALSE]
    ELSE nested_schema

\* Variant of HasResolver that runs the discovery without a naming policy.
HasResolver_Always == TRUE

\* if spec and spec.schema_name_resolver
HasResolver == resolver # "none"

RECURSIVE schema_definition_helper(_, _, _)
RECURSIVE InspectFields(_, _)
RECURSIVE definition(_, _, _)

\* Variant of ReferenceNested that asks the naming policy before it looks
\* the key up in the registry.
ReferenceNested_AskFirst(st, nested_schema, nested_schema_ref) ==
    LET definition_name == schema_name_resolver(nested_schema_ref)
        st1 == [st EXCEPT !.asked = Append(@, nested_schema_ref)]
    IN  IF nested_schema_ref \notin DOMAIN st.plug["refs"] /\ definition_name # ""
        THEN definition(st1, definition_name, Singular(nested_schema))
        ELSE st1

\* if nested_schema_ref: if nested_schema_ref not in plug['refs']: ...
ReferenceNested(st, nested_schema, nested_schema_ref) ==
    IF nested_schema_ref \notin DOMAIN st.plug["refs"]
    THEN LET definition_name == schema_name_resolver(nested_schema_ref)
             st1 == [st EXCEPT !.asked = Append(@, nested_schema_ref)]
         IN  IF definition_name # ""
             THEN definition(st1, definition_name, Singular(nested_schema))
             ELSE st1
    ELSE st

\* One pass of the loop over original_schema_instance.fields.items().
InspectField(st, field) ==
    IF field.kind = "Nested"
    THEN ReferenceNested(st, field.schema, get_schema_ref(field.schema))
    ELSE IF field.kind = "List" /\ field.container.kind = "Nested"
    THEN \* nested_schema = field.schema: a List field has no such attribute
         IF "schema" \notin DOMAIN field
         THEN [st EXCEPT !.err = "AttributeError"]
         ELSE ReferenceNested(st, field.schema,
                              get_schema_ref(field.container.schema))
    ELSE st

InspectFields(st, fields) ==
    IF st.err # "" \/ fields = <<>> THEN st
    ELSE InspectFields(InspectField(st, Head(fields)), Tail(fields))

inspect_schema_for_auto_referencing(st, original_schema_instance) ==
    InspectFields(
        [st EXCEPT !.plug = EnsureRefs(@),
                   !.inspected = Append(@, original_schema_instance)],
        InstanceFields(original_schema_instance))

schema_definition_helper(st, name, schema) ==
    LET schema_ref == get_schema_ref(schema)
        schema_instance == get_schema_instance(schema)
        json_schema == schema2jsonschema(schema_instance)
        st1 == [st EXCEPT !.plug = StoreRef(@, schema_ref, name),
                          !.converted = Append(@, schema_instance)]
        st2 == IF HasResolver
               THEN inspect_schema_for_auto_referencing(st1, schema_instance)
               ELSE st1
    IN  IF st2.err # "" THEN [st2 EXCEPT !.ret = None]
        ELSE [st2 EXCEPT !.ret = json_schema]

\* APISpec.definition: hands the schema to the registered definition helper.
definition(st, name, schema) == schema_definition_helper(st, name, schema)

-----------------------------------------------------------------------------
(* resolve_schema_cls, resolve_schema_dict *)

\* Variant of resolve_schema_cls that takes the class A for a name the class
\* registry does not hold.
resolve_schema_cls_Default(schema) ==
    IF schema.tag = "class" THEN [ret |-> schema, err |-> ""]
    ELSE IF schema.tag = "instance"
    THEN [ret |-> SchemaClass(schema.cls), err |-> ""]
    ELSE IF schema.tag = "str" /\ schema.s \in DOMAIN ClassRegistry
    THEN [ret |-> ClassRegistry[schema.s], err |-> ""]
    ELSE [ret |-> SchemaClass("A"), err |-> ""]

resolve_schema_cls(schema) ==
    IF schema.tag = "class" THEN [ret |-> schema, err |-> ""]
    ELSE IF schema.tag = "instance"
    THEN [ret |-> SchemaClass(schema.cls), err |-> ""]
    ELSE IF schema.tag = "str" /\ schema.s \in DOMAIN ClassRegistry
    THEN [ret |-> ClassRegistry[schema.s], err |-> ""]
    ELSE [ret |-> None, err |-> "RegistryError"]

\* '#/definitions/{0}'.format(name)
RefSchema(name) == "$ref" :> ("#/definitions/" \o name)

ArrayOf(items) == [type |-> "array", items |-> items]

\* not schema_ref: a key is false-y only as the empty string.
Falsy(key) == key.kind = "str" /\ key.v = ""

Refs(p) == IF "refs" \in DOMAIN p THEN p["refs"] ELSE EmptyDict

\* Variant of GetMany that never sees the many flag.
GetMany_Never(schema) == FALSE

\* getattr(schema, 'many', False)
GetMany(schema) == IF schema.tag = "instance" THEN schema.many ELSE FALSE

\* Variant of ResolveRefKey that looks every reference up by its class.
ResolveRefKey_ByClass(schema, schema_cls) == TypeKey(schema_cls.cls)

\* schema_ref = get_schema_ref(schema); if not schema_ref: schema_ref = schema_cls
ResolveRefKey(schema, schema_cls) ==
    LET schema_ref == get_schema_ref(schema)
    IN  IF ~Falsy(schema_ref) THEN schema_ref
        ELSE IF schema_cls.tag = "class" THEN TypeKey(schema_cls.cls)
        ELSE [kind |-> "object", v |-> schema_cls.cls]

\* Variant of IsArrayWithItems that does not look at the type member.
IsArrayWithItems_AnyType(d) == "items" \in DOMAIN d

\* schema.get('type') == 'array' and 'items' in schema
IsArrayWithItems(d) ==
    "type" \in DOMAIN d /\ d["type"] = "array" /\ "items" \in DOMAIN d

RECURSIVE resolve_schema_dict(_, _, _)
resolve_schema_dict(p, schema, use_instances) ==
    IF schema.tag = "dict"
    THEN IF IsArrayWithItems(schema.d)
         THEN LET items == resolve_schema_dict(p, schema.d["items"], use_instances)
              IN  IF items.err # "" THEN items
                  ELSE [ret |-> [schema.d EXCEPT !["items"] = items.ret], err |-> ""]
         ELSE [ret |-> schema.d, err |-> ""]
    ELSE LET cls == IF schema.tag = "instance" /\ use_instances
                    THEN [ret |-> schema, err |-> ""]
                    ELSE resolve_schema_cls(schema)
             schema_ref == ResolveRefKey(schema, cls.ret)
         IN  IF cls.err # "" THEN cls
             ELSE IF schema_ref \in DOMAIN Refs(p)
             THEN LET ref_schema == RefSchema(Refs(p)[schema_ref])
                  IN  IF GetMany(schema)
                      THEN [ret |-> ArrayOf(ref_schema), err |-> ""]
                      ELSE [ret |-> ref_schema, err |-> ""]
             ELSE IF schema.tag # "instance"
             THEN [ret |-> schema2jsonschema(cls.ret), err |-> ""]
             ELSE [ret |-> schema2jsonschema(schema), err |-> ""]

-----------------------------------------------------------------------------
(* resolve_parameters, schema_operation_resolver *)

\* An operation that is a dict, and an entry of operations that is not.
OperationDict(d) == [tag |-> "dict", d |-> d]

NotADict(v) == [tag |-> "other", v |-> v]

\* swagger.schema2parameters(schema_cls, default_in=...): one parameter for
\* each field of the schema, at the location given.
schema2parameters(schema_cls, default_in) ==
    LET fs == InstanceFields(get_schema_instance(schema_cls))
    IN  [i \in 1..Len(fs) |-> [name |-> fs[i].name, in |-> default_in]]

\* not isinstance(parameter.get('schema', {}), dict)
HasSchemaReference(parameter) ==
    "schema" \in DOMAIN parameter /\ parameter["schema"].tag # "dict"

\* One pass of the loop of resolve_parameters, from the class of the schema
\* on: what the pass adds to resolved.
ExpandParameter(parameter, schema_cls) ==
    IF schema_cls.err # "" THEN [ret |-> <<>>, err |-> schema_cls.err]
    ELSE IF "in" \in DOMAIN parameter
    THEN [ret |-> schema2parameters(schema_cls.ret, parameter["in"]), err |-> ""]
    ELSE [ret |-> <<parameter>>, err |-> ""]

\* One pass of the loop of resolve_parameters.
ResolveParameter(parameter) ==
    IF HasSchemaReference(parameter)
    THEN ExpandParameter(parameter, resolve_schema_cls(parameter["schema"]))
    ELSE [ret |-> <<parameter>>, err |-> ""]

RECURSIVE ResolveParametersFrom(_, _)

\* resolved += ..., or resolved.append(parameter), and the next pass.
ExtendResolved(resolved, parameters, r) ==
    IF r.err # "" THEN [ret |-> resolved, err |-> r.err]
    ELSE ResolveParametersFrom(resolved \o r.ret, Tail(parameters))

ResolveParametersFrom(resolved, parameters) ==
    IF parameters = <<>> THEN [ret |-> resolved, err |-> ""]
    ELSE ExtendResolved(resolved, parameters,
                        ResolveParameter(Head(parameters)))

resolve_parameters(parameters) == ResolveParametersFrom(<<>>, parameters)

\* Variant of StoreResolved that stores the items of an array-shaped result.
StoreResolved_Unwrap(response, r) ==
    IF r.err # "" THEN [ret |-> response, err |-> r.err]
    ELSE IF "items" \in DOMAIN r.ret
    THEN [ret |-> [response EXCEPT !["schema"] = r.ret["items"]], err |-> ""]
    ELSE [ret |-> [response EXCEPT !["schema"] = r.ret], err |-> ""]

\* response['schema'] = <result of resolve_schema_dict>
StoreResolved(response, r) ==
    IF r.err # "" THEN [ret |-> response, err |-> r.err]
    ELSE [ret |-> [response EXCEPT !["schema"] = r.ret], err |-> ""]

\* if 'schema' in response: response['schema'] = resolve_schema_dict(...)
ResolveResponse(p, response) ==
    IF "schema" \in DOMAIN response
    THEN StoreResolved(response,
                       resolve_schema_dict(p, response["schema"], FALSE))
    ELSE [ret |-> response, err |-> ""]

RECURSIVE ResolveResponsesFrom(_, _, _)

\* The response of one pass is in place; the next pass, unless it raised.
NextResponse(p, done, responses, r) ==
    IF r.err # "" THEN [ret |-> done \o responses, err |-> r.err]
    ELSE ResolveResponsesFrom(p, Append(done, <<Head(responses)[1], r.ret>>),
                              Tail(responses))

\* The responses of an operation, a dict in insertion order, are a sequence
\* of <<status code, response>> pairs; those already done are kept when a
\* later one raises.
ResolveResponsesFrom(p, done, responses) ==
    IF responses = <<>> THEN [ret |-> done, err |-> ""]
    ELSE NextResponse(p, done, responses,
                      ResolveResponse(p, Head(responses)[2]))

\* The operation with its responses rewritten.
WithResponses(d, rs) ==
    [ret |-> OperationDict(IF "responses" \in DOMAIN d
                           THEN [d EXCEPT !["responses"] = rs.ret]
                           ELSE d),
     err |-> rs.err]

\* for response in operation.get('responses', {}).values(): ...
RewriteResponses(p, d) ==
    WithResponses(d, IF "responses" \in DOMAIN d
                     THEN ResolveResponsesFrom(p, <<>>, d["responses"])
                     ELSE [ret |-> <<>>, err |-> ""])

\* operation['parameters'] = <result of resolve_parameters>, then the
\* responses.
WithParameters(p, operation, ps) ==
    IF ps.err # "" THEN [ret |-> operation, err |-> ps.err]
    ELSE RewriteResponses(p, IF "parameters" \in DOMAIN operation.d
                             THEN [operation.d EXCEPT !["parameters"] = ps.ret]
                             ELSE operation.d)

\* One pass of the loop of schema_operation_resolver.
RewriteOperation(p, operation) ==
    IF operation.tag # "dict" THEN [ret |-> operation, err |-> ""]
    ELSE WithParameters(p, operation,
                        IF "parameters" \in DOMAIN operation.d
                        THEN resolve_parameters(operation.d["parameters"])
                        ELSE [ret |-> <<>>, err |-> ""])

RECURSIVE RewriteOperationsFrom(_, _, _)

\* The operation of one pass is in place; the next pass, unless it raised.
NextOperation(p, done, operations, r) ==
    IF r.err # ""
    THEN [ret |-> Append(done, <<Head(operations)[1], r.ret>>)
                      \o Tail(operations),
          err |-> r.err]
    ELSE RewriteOperationsFrom(
             p, Append(done, <<Head(operations)[1], r.ret>>), Tail(operations))

\* operations, a dict in insertion order, is a sequence of
\* <<method, operation>> pairs, rewritten in place one after the other.
RewriteOperationsFrom(p, done, operations) ==
    IF operations = <<>> THEN [ret |-> done, err |-> ""]
    ELSE NextOperation(p, done, operations,
                       RewriteOperation(p, Head(operations)[2]))

schema_operation_resolver(p, operations) ==
    RewriteOperationsFrom(p, <<>>, operations)

-----------------------------------------------------------------------------
(* The calls of the host *)

Names == {"User", "Pet"}

\* (exclude, only) pairs a caller gives an instance of class A.
Restrictions ==
    {<< <<"a", "b">>, <<>> >>, << <<"b", "a">>, <<>> >>, << <<"a_b">>, <<>> >>}

Instances ==
    {Many("A")}
        \cup {SchemaInstance("A", FALSE, r[1], r[2]) : r \in Restrictions}

Definable == {SchemaClass(c) : c \in Classes} \cup Instances

NameStrings == {NameString(s) : s \in {"A", "B", "Nope"}}

Literals ==
    {LiteralDict([type |-> "string"]),
     LiteralDict([type |-> "array", items |-> SchemaClass("A")]),
     LiteralDict([type |-> "array", items |-> NameString("Nope")]),
     LiteralDict([type |-> "array", description |-> "rows",
                  items |-> LiteralDict([type |-> "array",
                                         items |-> Many("A")])]),
     LiteralDict([type |-> "object", items |-> SchemaClass("A")]),
     LiteralDict([type |-> "array", title |-> SchemaClass("A")])}

\* An instance of class A restricted by only.
OnlyB == SchemaInstance("A", FALSE, <<>>, <<"b">>)

Resolvable ==
    Definable \cup {One("A"), One("C"), OnlyB} \cup NameStrings \cup Literals

\* Parameters an operation may list.
Plain == [name |-> "q", in |-> "query"]

ByClass == [name |-> "body", in |-> "query", schema |-> SchemaClass("A")]

ByInstance ==
    [name |-> "f", in |-> "path",
     schema |-> SchemaInstance("A", FALSE, <<"a", "b">>, <<>>)]

ByName == [name |-> "h", in |-> "header", schema |-> NameString("B")]

NoIn == [name |-> "n", schema |-> SchemaClass("C")]

Inline == [name |-> "l", in |-> "body", schema |-> LiteralDict([type |-> "string"])]

Unknown == [name |-> "u", in |-> "query", schema |-> NameString("Nope")]

\* The operations of a path, as the host or a docstring gives them.
OperationSets ==
    {<< <<"get", OperationDict(
                    [parameters |-> <<Plain, ByClass, Inline>>,
                     responses |->
                         << <<"200", [description |-> "ok",
                                      schema |-> SchemaClass("A")]>>,
                            <<"404", [description |-> "none"]>> >>])>>,
        <<"post", NotADict("see get")>> >>,
     << <<"summary", NotADict("text")>>,
        <<"get", OperationDict(
                    [parameters |-> <<ByInstance, Plain, ByName>>,
                     responses |-> << <<"200", [schema |-> Many("A")]>> >>])>> >>,
     << <<"get", OperationDict([parameters |-> <<NoIn, Plain>>])>>,
        <<"put", OperationDict(
                    [responses |->
                         << <<"200", [schema |->
                                LiteralDict([type |-> "array",
                                             items |-> SchemaClass("B")])]>> >>])>> >>,
     << <<"get", OperationDict(
                    [responses |->
                         << <<"200", [schema |-> SchemaClass("B")]>>,
                            <<"404", [schema |-> NameString("Nope")]>> >>])>>,
        <<"post", OperationDict([parameters |-> <<Plain, Unknown>>])>> >>}

Init ==
    /\ world \in Worlds
    /\ resolver \in Resolvers
    /\ plug = EmptyDict
    /\ calls = 0
    /\ last = [op |-> "init", name |-> "", schema |-> None, before |-> EmptyDict,
               ret |-> None, err |-> "", asked |-> <<>>, converted |-> <<>>,
               inspected |-> <<>>]

\* spec.definition(name, schema=schema) by the host.
Register(name, schema) ==
    /\ calls < MaxCalls
    /\ LET st == definition(CallState(plug), name, schema)
       IN  /\ plug' = st.plug
           /\ last' = [op |-> "register", name |-> name, schema |-> schema,
                       before |-> plug, ret |-> st.ret, err |-> st.err,
                       asked |-> st.asked, converted |-> st.converted,
                       inspected |-> st.inspected]
    /\ calls' = calls + 1
    /\ UNCHANGED <<world, resolver>>

\* resolve_schema_dict(spec, schema) by the host.
Resolve(schema, use_instances) ==
    /\ LET r == resolve_schema_dict(plug, schema, use_instances)
       IN  last' = [op |-> "resolve", name |-> "", schema |-> schema,
                    before |-> plug, ret |-> r.ret, err |-> r.err,
                    asked |-> <<>>, converted |-> <<>>, inspected |-> <<>>]
    /\ UNCHANGED <<world, resolver, plug, calls>>

\* schema_operation_resolver(spec, operations=operations) on a path.
Rewrite(operations) ==
    /\ LET r == schema_operation_resolver(plug, operations)
       IN  last' = [op |-> "rewrite", name |-> "", schema |-> operations,
                    before |-> plug, ret |-> r.ret, err |-> r.err,
                    asked |-> <<>>, converted |-> <<>>, inspected |-> <<>>]
    /\ UNCHANGED <<world, resolver, plug, calls>>

Next ==
    \/ \E name \in Names, schema \in Definable : Register(name, schema)
    \/ \E schema \in Resolvable, use_instances \in BOOLEAN :
           Resolve(schema, use_instances)
    \/ \E operations \in OperationSets : Rewrite(operations)

Spec == Init /\ [][Next]_vars

-----------------------------------------------------------------------------
(* Properties *)

IsRegister == last.op = "register"

IsResolve == last.op = "resolve"

\* The registry before and after the last call.
Before == Refs(last.before)

After == Refs(plug)

LastKey == get_schema_ref(last.schema)

Ok(d) == [ret |-> d, err |-> ""]

UseInstances == BOOLEAN

\* C1: after register(N, S) of a schema class S (or of an unrestricted
\* instance of it), resolving the class or an unrestricted instance with
\* many=False returns exactly {"$ref": "#/definitions/N"}, and resolving an
\* unrestricted instance with many=True returns exactly
\* {"type": "array", "items": {"$ref": "#/definitions/N"}}; and a resolve the
\* host makes of such a reference returns the pointer to the registered name.
RoundTripReference ==
    /\ (IsRegister /\ LastKey.kind = "type") =>
           \A u \in UseInstances :
              LET c == LastKey.v
              IN  /\ resolve_schema_dict(plug, SchemaClass(c), u)
                        = Ok(RefSchema(last.name))
                  /\ resolve_schema_dict(plug, One(c), u)
                        = Ok(RefSchema(last.name))
                  /\ resolve_schema_dict(plug, Many(c), u)
                        = Ok(ArrayOf(RefSchema(last.name)))
    /\ (IsResolve /\ last.schema.tag \in {"class", "instance"}
            /\ LastKey.kind = "type" /\ LastKey \in DOMAIN After) =>
           /\ last.err = ""
           /\ last.ret = IF last.schema.tag = "instance" /\ last.schema.many
                         THEN ArrayOf(RefSchema(After[LastKey]))
                         ELSE RefSchema(After[LastKey])

RoundTripReferenceWitness ==
    /\ IsResolve
    /\ last.schema = Many("A")
    /\ last.ret = ArrayOf(RefSchema("User"))

\* C2: after register(N, S), resolving the name string the schema-name
\* registry maps to class S returns the pointer {"$ref": "#/definitions/N"}.
NameStringRoundTrip ==
    (IsResolve /\ last.schema.tag = "str"
        /\ last.schema.s \in DOMAIN ClassRegistry
        /\ TypeKey(last.schema.s) \in DOMAIN After) =>
       /\ last.err = ""
       /\ last.ret = RefSchema(After[TypeKey(last.schema.s)])

\* C3: register(N, S) called twice in a row with the same name and schema
\* has the same outcome both times (the same descriptor) and the registry
\* after the second call equals the registry after the first.
RegisterIdempotent ==
    [][(IsRegister /\ last'.op = "register" /\ last'.name = last.name
            /\ last'.schema = last.schema) =>
          /\ last'.ret = last.ret
          /\ last'.err = last.err
          /\ plug' = plug
          /\ Cardinality(DOMAIN Refs(plug')) = Cardinality(DOMAIN Refs(plug))]_vars

RegisterIdempotentWitness ==
    /\ IsRegister
    /\ last.err = ""
    /\ last.ret = schema2jsonschema(last.schema)
    /\ LastKey \in DOMAIN Before
    /\ Before[LastKey] = last.name
    /\ last.inspected # <<>>
    /\ Cardinality(DOMAIN After) > 1
    /\ plug = last.before

WithKey(k) ==
    {r \in Definable \cup {One(c) : c \in Classes} : get_schema_ref(r) = k}

\* C5: after register(N1, S) followed by register(N2, S') with the identity
\* key of S and another name, no error is raised, the registry maps the key
\* to N2, the second call leaves the number of registry keys unchanged and a
\* resolve of that key returns a pointer to #/definitions/N2.
LastWriterWins ==
    [][(IsRegister /\ last'.op = "register"
            /\ get_schema_ref(last'.schema) = LastKey
            /\ last'.name # last.name) =>
          /\ last'.err = ""
          /\ LastKey \in DOMAIN Refs(plug')
          /\ Refs(plug')[LastKey] = last'.name
          /\ Cardinality(DOMAIN Refs(plug')) = Cardinality(DOMAIN Refs(plug))
          /\ \A r \in WithKey(LastKey), u \in UseInstances :
                 resolve_schema_dict(plug', r, u)
                    = Ok(IF GetMany(r) THEN ArrayOf(RefSchema(last'.name))
                         ELSE RefSchema(last'.name))]_vars

\* C6: two instances of one class whose exclude collections hold the same
\* field names, in any order, have the same identity key, so that when one
\* is registered the other resolves to the registered definition name.
IdentityCollapsing ==
    (IsResolve /\ last.schema.tag = "instance") =>
       \A t \in Instances :
          (/\ t.cls = last.schema.cls
           /\ Range(t.exclude) = Range(last.schema.exclude)
           /\ Range(t.only) = Range(last.schema.only)) =>
             /\ get_schema_ref(t) = LastKey
             /\ get_schema_ref(t) \in DOMAIN After =>
                    last.ret = RefSchema(After[get_schema_ref(t)])

\* The schema references that denote a schema: a class, an instance, or a
\* name string the schema-name registry knows.
DenotesSchema(r) ==
    \/ r.tag \in {"class", "instance"}
    \/ r.tag = "str" /\ r.s \in DOMAIN ClassRegistry

DenotedSchema(r) == IF r.tag = "str" THEN ClassRegistry[r.s] ELSE r

\* C7: a resolve of a schema reference whose identity key is not in the
\* registry returns the inline object descriptor of the converter, never a
\* $ref, and leaves the registry as it was.
InlineFallback ==
    (IsResolve /\ DenotesSchema(last.schema) /\ LastKey \notin DOMAIN Before) =>
       /\ last.err = ""
       /\ last.ret = schema2jsonschema(DenotedSchema(last.schema))
       /\ "$ref" \notin DOMAIN last.ret
       /\ last.ret.type = "object"
       /\ plug = last.before

InlineFallbackWitness ==
    /\ IsResolve
    /\ last.schema = SchemaInstance("A", FALSE, <<"a_b">>, <<>>)
    /\ TypeKey("A") \in DOMAIN Before
    /\ LastKey \notin DOMAIN Before
    /\ last.ret = [type |-> "object", properties |-> <<"a", "b">>]

\* The schemas a schema instance nests: those of its nested-schema fields
\* and of its collection-of-nested-schema fields.
NestedOf(inst) ==
    {f.schema : f \in {g \in Range(InstanceFields(inst)) : g.kind = "Nested"}}
        \cup {f.container.schema :
                 f \in {g \in Range(InstanceFields(inst)) :
                           g.kind = "List" /\ g.container.kind = "Nested"}}

RECURSIVE ReachableFrom(_, _)
ReachableFrom(S, n) ==
    IF n = 0 THEN S
    ELSE ReachableFrom(S \cup UNION {NestedOf(i) : i \in S}, n - 1)

Reachable(inst) == ReachableFrom(NestedOf(inst), Cardinality(Classes))

Count(seq, x) == Cardinality({i \in 1..Len(seq) : seq[i] = x})

\* C8: with a naming policy that names every key and an acyclic nesting
\* graph, register(nameA, A) ends with every schema reachable from A in the
\* registry, each discovered key under the name the policy returned for it,
\* and the policy asked exactly once about each discovered key.
DiscoveryComplete ==
    (IsRegister /\ resolver = "all" /\ world # "cycle") =>
       /\ \A n \in Reachable(get_schema_instance(last.schema)) :
              LET k == get_schema_ref(n)
              IN  /\ k \in DOMAIN After
                  /\ (k \notin DOMAIN Before /\ k # LastKey) =>
                         /\ After[k] = schema_name_resolver(k)
                         /\ Count(last.asked, k) = 1
       /\ \A i \in 1..Len(last.asked) : Count(last.asked, last.asked[i]) = 1

Declined == {k \in Range(last.asked) : schema_name_resolver(k) = ""}

\* C9: when the naming policy declines a nested schema's key during the
\* discovery, no error is raised, the key is not added to the registry, the
\* discovery does not descend into that schema and a later resolve of that
\* schema returns the inline descriptor.
DeclinedNaming ==
    (IsRegister /\ Declined # {}) =>
       /\ last.err = ""
       /\ \A k \in Declined :
              /\ k \notin DOMAIN After
              /\ \A j \in 1..Len(last.inspected) :
                     get_schema_ref(last.inspected[j]) # k
              /\ \A r \in WithKey(k), u \in UseInstances :
                     resolve_schema_dict(plug, r, u) = Ok(schema2jsonschema(r))

\* C10: with no naming policy configured, register(N, S) adds only the
\* identity key of S to the registry, whatever fields S declares, runs no
\* discovery and raises no error.
OptInDiscovery ==
    (IsRegister /\ resolver = "none") =>
       /\ last.err = ""
       /\ last.ret = schema2jsonschema(last.schema)
       /\ last.inspected = <<>>
       /\ last.asked = <<>>
       /\ DOMAIN After = DOMAIN Before \cup {LastKey}
       /\ After[LastKey] = last.name
       /\ \A k \in DOMAIN Before \ {LastKey} : After[k] = Before[k]

OptInDiscoveryWitness ==
    /\ IsRegister
    /\ resolver = "none"
    /\ world = "list"
    /\ last.schema = SchemaClass("B")
    /\ NestedOf(One("B")) # {}
    /\ DOMAIN After = {TypeKey("B")}
    /\ last.err = ""

IsRewrite == last.op = "rewrite"

\* C11: the registry starts empty and no call of register, discovery, resolve
\* or rewrite takes a key out of it: the key set after a call contains the key
\* set before it. Resolve and rewrite leave the registry as it is, and the keys
\* a register adds are the key of the schema registered and keys the discovery
\* asked the naming policy about.
RegistryMonotone ==
    /\ DOMAIN Refs(plug) = {}
    /\ [][/\ DOMAIN Refs(plug) \subseteq DOMAIN Refs(plug')
          /\ last'.op # "register" => plug' = plug
          /\ last'.op = "register" =>
                 (DOMAIN Refs(plug') \ DOMAIN Refs(plug))
                     \subseteq ({get_schema_ref(last'.schema)}
                                    \cup Range(last'.asked))]_vars

\* A register on a registry that holds keys adds its own key and keys found by
\* the discovery, and the keys held before are all still there.
RegistryMonotoneWitness ==
    /\ IsRegister
    /\ DOMAIN Before # {}
    /\ DOMAIN Before \subseteq DOMAIN After
    /\ Cardinality(DOMAIN After) >= Cardinality(DOMAIN Before) + 2
    /\ Range(last.asked) \cap (DOMAIN After \ DOMAIN Before) # {}

\* C12: resolve of a literal dict with type "array" and an items member
\* returns the dict with items replaced by the resolution of items, which is
\* itself resolved by the same rule when it is an array literal, and with type
\* and every other member as given (a failure of the resolution of items is
\* the failure of the call); resolve of any other literal dict returns the
\* dict as given, whatever the registry holds.
ArrayPassThrough ==
    (IsResolve /\ last.schema.tag = "dict") =>
        LET d == last.schema.d
        IN  IF "type" \in DOMAIN d /\ d["type"] = "array" /\ "items" \in DOMAIN d
            THEN \E u \in UseInstances :
                    LET items == resolve_schema_dict(last.before, d["items"], u)
                    IN  IF items.err # "" THEN last.err = items.err
                        ELSE /\ last.err = ""
                             /\ DOMAIN last.ret = DOMAIN d
                             /\ last.ret["items"] = items.ret
                             /\ \A k \in DOMAIN d \ {"items"} : last.ret[k] = d[k]
            ELSE last.err = "" /\ last.ret = d

\* An array literal whose items is an array literal of a registered many
\* instance has been resolved: the pointer sits two arrays deep and the
\* description member is the one given.
ArrayPassThroughWitness ==
    /\ IsResolve
    /\ last.schema.tag = "dict"
    /\ "description" \in DOMAIN last.schema.d
    /\ TypeKey("A") \in DOMAIN Before
    /\ last.err = ""
    /\ last.ret["type"] = "array"
    /\ last.ret["description"] = "rows"
    /\ last.ret["items"]["type"] = "array"
    /\ last.ret["items"]["items"] = ArrayOf(RefSchema(Before[TypeKey("A")]))

\* The schema a non-literal reference denotes: the instance itself, an instance
\* of the class, or an instance of the class registered under the name.
ReferencedSchema(schema) ==
    IF schema.tag = "str" THEN get_schema_instance(ClassRegistry[schema.s])
    ELSE get_schema_instance(schema)

\* The parameters one parameter stands for after the rewriting: one for each
\* field of the schema it refers to, at its declared location, or itself.
ExpandedParameter(parameter) ==
    IF HasSchemaReference(parameter)
    THEN LET fs == InstanceFields(ReferencedSchema(parameter["schema"]))
         IN  [i \in 1..Len(fs) |->
                 [name |-> fs[i].name,
                  in |-> IF "in" \in DOMAIN parameter THEN parameter["in"]
                         ELSE ""]]
    ELSE <<parameter>>

RECURSIVE ExpandedParameters(_)
ExpandedParameters(parameters) ==
    IF parameters = <<>> THEN <<>>
    ELSE ExpandedParameter(Head(parameters))
             \o ExpandedParameters(Tail(parameters))

\* C13: after a rewrite that raised nothing, the parameters list of every
\* operation that has one is the list given with every parameter whose schema
\* member is a non-literal schema reference replaced, at its position, by one
\* parameter for each field of that schema at the parameter's declared
\* location, and with every other parameter unchanged and in the given order.
ParameterRewriting ==
    (IsRewrite /\ last.err = "") =>
        \A i \in 1..Len(last.schema) :
            LET given == last.schema[i][2]
            IN  (given.tag = "dict" /\ "parameters" \in DOMAIN given.d) =>
                    /\ last.ret[i][2].tag = "dict"
                    /\ last.ret[i][2].d["parameters"]
                           = ExpandedParameters(given.d["parameters"])

\* C14: a rewrite leaves every entry of operations that is not a mapping as it
\* was, and an error it ends in is one raised for a mapping-valued operation;
\* after a rewrite that raised nothing, every response of every mapping-valued
\* operation that has a schema member holds there the result of resolving that
\* member against the registry, with its other members as given, and every
\* response without a schema member is as given.
ResponseRewriting ==
    IsRewrite =>
        /\ Len(last.ret) = Len(last.schema)
        /\ \A i \in 1..Len(last.schema) :
               (last.schema[i][2].tag # "dict") => last.ret[i] = last.schema[i]
        /\ last.err # "" =>
               \E i \in 1..Len(last.schema) :
                   /\ last.schema[i][2].tag = "dict"
                   /\ RewriteOperation(last.before, last.schema[i][2]).err = last.err
        /\ last.err = "" =>
               \A i \in 1..Len(last.schema) :
                   LET given == last.schema[i][2]
                       done == last.ret[i][2]
                   IN  (given.tag = "dict" /\ "responses" \in DOMAIN given.d) =>
                           /\ done.tag = "dict"
                           /\ Len(done.d["responses"]) = Len(given.d["responses"])
                           /\ \A j \in 1..Len(given.d["responses"]) :
                                  LET code == given.d["responses"][j][1]
                                      response == given.d["responses"][j][2]
                                      resolved == done.d["responses"][j][2]
                                  IN  /\ done.d["responses"][j][1] = code
                                      /\ DOMAIN resolved = DOMAIN response
                                      /\ \A k \in DOMAIN response \ {"schema"} :
                                             resolved[k] = response[k]
                                      /\ "schema" \in DOMAIN response =>
                                             resolved["schema"]
                                                 = resolve_schema_dict(
                                                       last.before,
                                                       response["schema"],
                                                       FALSE).ret

\* A rewrite of operations that hold a mapping with a response naming the
\* registered class A and an entry that is not a mapping: the response now
\* holds the pointer to the name of A, the response without schema and the
\* entry that is not a mapping are as given.
ResponseRewritingWitness ==
    /\ IsRewrite
    /\ last.err = ""
    /\ TypeKey("A") \in DOMAIN Before
    /\ Len(last.schema) = 2
    /\ last.schema[1][2].tag = "dict"
    /\ last.schema[2][2].tag = "other"
    /\ last.ret[2] = last.schema[2]
    /\ last.schema[1][2].d["responses"][1][2]["schema"] = SchemaClass("A")
    /\ last.ret[1][2].d["responses"][1][2]["schema"]
           = RefSchema(Before[TypeKey("A")])
    /\ last.ret[1][2].d["responses"][2] = last.schema[1][2].d["responses"][2]

\* C15: resolve of a name string for which the class registry holds no class
\* ends in the lookup failure of the class registry, returns no descriptor and
\* leaves the registry as it was.
UnresolvableName ==
    (IsResolve /\ last.schema.tag = "str"
        /\ last.schema.s \notin DOMAIN ClassRegistry) =>
        /\ last.err = "RegistryError"
        /\ last.ret = None
        /\ plug = last.before

\* The name "Nope" has been resolved against a registry that holds keys.
UnresolvableNameWitness ==
    /\ IsResolve
    /\ last.schema = NameString("Nope")
    /\ DOMAIN Before # {}
    /\ last.err = "RegistryError"
    /\ After = Before

\* The schema a field nests, for a nested field and for a collection of a
\* nested field; None for any other field.
NestedSchema(field) ==
    IF field.kind = "Nested" THEN field.schema
    ELSE IF field.kind = "List" /\ field.container.kind = "Nested"
    THEN field.container.schema
    ELSE None

\* C16: when the discovery of a register, under a policy that names every
\* key, inspects a schema with a nested field or a collection-of-nested field
\* whose schema has many set and whose key was not in the registry, the call
\* ends with that key in the registry and has registered the schema with many
\* cleared, once, and never the schema with many set.
SingularDiscovery ==
    (IsRegister /\ resolver = "all") =>
        \A inst \in Range(last.inspected) :
            \A i \in 1..Len(InstanceFields(inst)) :
                LET nested == NestedSchema(InstanceFields(inst)[i])
                IN  (nested # None /\ nested.many
                        /\ get_schema_ref(nested) \notin DOMAIN Before
                        /\ get_schema_ref(nested) # LastKey) =>
                        /\ get_schema_ref(nested) \in DOMAIN After
                        /\ Count(last.converted, Singular(nested)) = 1
                        /\ Count(last.converted, nested) = 0

\* C17: a register never changes the name of a key that was in the registry
\* before the call, other than the key of the schema registered, and its
\* discovery never asks the naming policy about a key that was in the registry
\* before the call: a name given by an explicit register survives a later
\* discovery; and the key of the schema registered is bound to the name given,
\* so an explicit register after a discovery rebinds the discovered name.
DiscoveryNeverRenames ==
    IsRegister =>
        /\ \A k \in DOMAIN Before :
               /\ k \notin Range(last.asked)
               /\ k # LastKey => (k \in DOMAIN After /\ After[k] = Before[k])
        /\ After[LastKey] = last.name

\* Class B was registered by the host under a name of the host, and a later
\* register of a schema nesting B ran its discovery and left B's name alone.
DiscoveryNeverRenamesWitness ==
    /\ IsRegister
    /\ resolver = "all"
    /\ world = "tree"
    /\ last.schema = SchemaClass("A")
    /\ last.err = ""
    /\ TypeKey("B") \in DOMAIN Before
    /\ Before[TypeKey("B")] \in Names
    /\ After[TypeKey("B")] = Before[TypeKey("B")]
    /\ last.inspected = <<get_schema_instance(SchemaClass("A"))>>
    /\ TypeKey("B") \notin Range(last.asked)

\* A key named by the discovery has been registered again by the host and
\* carries the host's name now.
RebindDiscoveredWitness ==
    /\ IsRegister
    /\ LastKey \in DOMAIN Before
    /\ Before[LastKey] = schema_name_resolver(LastKey)
    /\ After[LastKey] = last.name

\* C18: with a policy that names every key, a register on the nesting graph
\* with cycles (A nests B and B nests A, C nests itself) returns without an
\* error, with the key of every schema reachable from the schema registered
\* in the registry; the discovery inspected one schema for the call and one
\* for each key it asked about, asked about no key twice, and asked neither
\* about the key of the schema registered nor about a key already in the
\* registry, because a key is stored before the fields are inspected.
CyclicDiscoveryTerminates ==
    (IsRegister /\ world = "cycle" /\ resolver = "all") =>
        /\ last.err = ""
        /\ last.ret # None
        /\ \A inst \in Reachable(get_schema_instance(last.schema)) :
               get_schema_ref(inst) \in DOMAIN After
        /\ Len(last.inspected) = Len(last.asked) + 1
        /\ \A k \in Range(last.asked) :
               /\ Count(last.asked, k) = 1
               /\ k # LastKey
               /\ k \notin DOMAIN Before
               /\ k \in DOMAIN After

\* Class A, which nests B, which nests A, has been registered on an empty
\* registry: A and B are in the registry and the policy was asked about B.
CyclicDiscoveryTerminatesWitness ==
    /\ IsRegister
    /\ world = "cycle"
    /\ resolver = "all"
    /\ last.schema = SchemaClass("A")
    /\ DOMAIN Before = {}
    /\ last.err = ""
    /\ DOMAIN After = {TypeKey("A"), TypeKey("B")}
    /\ last.asked = <<TypeKey("B")>>
    /\ Len(last.inspected) = 2

IsRestricted(schema) ==
    schema.tag = "instance" /\ (schema.exclude # <<>> \/ schema.only # <<>>)

FilteredVariantRegisteredWitness ==
    /\ IsResolve
    /\ IsRestricted(last.schema)
    /\ TypeKey("A") \in DOMAIN Before
    /\ LastKey \in DOMAIN Before
    /\ Before[LastKey] # Before[TypeKey("A")]
    /\ last.ret = RefSchema(Before[LastKey])

\* C20: the identity key get_schema_ref gives an instance differs from the key
\* it gives every instance of the same class with another (exclude, only)
\* pair.
KeysSeparateRestrictions ==
    (IsResolve /\ last.schema.tag = "instance") =>
        \A other \in {r \in Resolvable : r.tag = "instance"} :
            (/\ other.cls = last.schema.cls
             /\ <<other.exclude, other.only>>
                    # <<last.schema.exclude, last.schema.only>>) =>
                get_schema_ref(other) # LastKey

====
